---- MODULE Spec2Model ----
(***************************************************************************)
(* Model of start_stop_analysis.py: the parse loop of                      *)
(* parse_start_stop_codon, the accumulator class StartStopData and its     *)
(* two reductions get_start_codon_dist_count / get_stop_codon_dist_count.  *)
(*                                                                         *)
(* A line is the list fdat = f.split('\t'), modelled as a function from    *)
(* the 0-based column index to the column's value; a line of n columns has *)
(* the domain 0..n-1.  Column 10 is the list of its comma separated block  *)
(* sizes.  The numbers of a line are not negative: in a column where the   *)
(* code expects a number, NaT stands for a text that is no number and      *)
(* EmptyText for the empty text (both make int() and float() raise).       *)
(***************************************************************************)
EXTENDS Integers, Sequences, FiniteSets, TLC

VARIABLES
    fin,          \* the input file being parsed
    pc,           \* "parse" (in the for loop), "done" (returned), "raised"
    nread,        \* number of lines read from fh so far
    f,            \* the line of the current loop iteration (<<>> before the first)
    fdist,        \* local fdist: <<>> while unbound, <<v>> once assigned
    readids,      \* local set readids
    startcodons,  \* StartStopData.startcodons: site key -> list of rows
    stopcodons,   \* StartStopData.stopcodons
    start_dist,   \* StartStopData.__start_dist
    stop_dist,    \* StartStopData.__stop_dist
    start_len_dict, \* StartStopData.__start_len_dict (never written after __init__)
    stop_len_dict,  \* StartStopData.__stop_len_dict (never written after __init__)
    sdf,          \* the data frame returned by the last reduction (<<>> if none)
    call,         \* the last reduction called: <<class, mincount>> (<<>> if none)
    ncontrib,     \* history: per read id, the number of add_* calls made for it
    part          \* per read chromosome, the state of a parse run that is given
                  \* only the lines of that chromosome (in their order)

vars == <<fin, pc, nread, f, fdist, readids, startcodons, stopcodons,
          start_dist, stop_dist, start_len_dict, stop_len_dict, sdf, call, ncontrib,
          part>>

acc == <<startcodons, stopcodons, start_dist, stop_dist>>

(***************************************************************************)
(* Program constants and bounds                                            *)
(***************************************************************************)
startcodon == "start_codon"
stopcodon == "stop_codon"
minQ == 10
\* the default of the reductions' mincount, the default of main's --c
mincount_default == 20
minC_default == 0
minL == 20

MaxLines == 4
MaxMinCount == 3

NoLine == <<>>
Unbound == <<>>
NoFrame == <<>>

\* a text that is no number, the empty text
NaT == -1
EmptyText == -2

(***************************************************************************)
(* Input lines                                                             *)
(***************************************************************************)
\* a line as bamToBed -bed12 and closestBed write it: columns 1, 2 repeat in
\* columns 6, 7; column 8 is the colour, 9 the block count, 11 the block
\* starts, 16 the gene of the codon
Line(chr, id, qual, strand, c6, c7, blocks, cchr, cbegin, cend, stype, cstrand) ==
    (0 :> chr) @@ (1 :> c6) @@ (2 :> c7) @@ (3 :> id) @@ (4 :> qual) @@
    (5 :> strand) @@ (6 :> c6) @@ (7 :> c7) @@ (8 :> "255,0,0") @@
    (9 :> Len(blocks)) @@ (10 :> blocks) @@ (11 :> "0") @@ (12 :> cchr) @@
    (13 :> cbegin) @@ (14 :> cend) @@ (15 :> stype) @@ (16 :> "gene1") @@
    (17 :> cstrand)

\* len(fdat)
NF(l) == Cardinality(DOMAIN l)

\* read positions (column 6, column 7) around the codon 110..113
Reads == {<<100, 123>>, <<90, 133>>, <<89, 134>>, <<111, 112>>}
Blocks == {<<20>>, <<19>>, <<10, 20>>}

\* signs.bed: one read, every strand / codon type / position / length
SignLines ==
    { Line("chr1", "r1", 10, s, r[1], r[2], b, "chr1", 110, 113, t, s) :
        s \in {"+", "-"}, r \in Reads, b \in Blocks, t \in {startcodon, stopcodon} }

\* dedup.bed: two reads, lines that fail each check, types and strands the
\* pattern lets through but the branches do not know
DedupLines ==
    { Line("chr1", id, 10, s, r[1], r[2], <<10, 20>>, "chr1", 110, 113, t, s) :
        id \in {"r1", "r2"}, s \in {"+", "-", "."}, r \in {<<100, 123>>, <<111, 112>>},
        t \in {startcodon, stopcodon, "START_CODON"} }
    \cup
    { Line("chr1", id, x[1], "+", 100, 123, <<10, 20>>, x[2], 110, 113, x[3], x[4]) :
        id \in {"r1", "r2"},
        x \in { <<9, "chr1", startcodon, "+">>, <<10, "chr2", startcodon, "+">>,
                <<10, "chr1", startcodon, "-">>, <<10, "chr1", "exon", "+">>,
                <<15, "chr1", startcodon, "+">> } }

\* sites.bed: four reads over codon sites of two chromosomes
SiteLines ==
    { Line(c, id, 10, "+", r[1], r[2], r[3], c, 110, 113, t, "+") :
        c \in {"chr1", "chr2"}, id \in {"r1", "r2", "r3", "r4"},
        r \in {<<100, 123, <<20>>>>, <<100, 123, <<10, 20>>>>, <<90, 133, <<10, 20>>>>},
        t \in {startcodon, stopcodon} }

Files == {"signs.bed", "dedup.bed", "sites.bed"}

\* the first n columns of a line
Trunc(l, n) == [i \in 0..(n - 1) |-> l[i]]

GoodLine(id, strand, stype) ==
    Line("chr1", id, 10, strand, 100, 123, <<10, 20>>, "chr1", 110, 113, stype, strand)
\* a line whose chromosomes differ, a line of low quality
OtherChrLine == [GoodLine("r1", "+", startcodon) EXCEPT ![12] = "chr2"]
LowQualLine == [GoodLine("r1", "+", startcodon) EXCEPT ![4] = 9]

\* malformed.bed: well formed lines, lines cut short (the tag in the type
\* column or in the colour column), lines with a text that is no number in
\* a column of numbers, block sizes with a trailing comma, a line that the
\* pattern matches in its gene column only
MalformedLines ==
    { GoodLine(id, s, t) : id \in {"r1", "r2"}, s \in {"+", "-"},
                           t \in {startcodon, stopcodon} }
    \cup
    { Trunc(l, 17) : l \in {GoodLine("r1", "+", startcodon), OtherChrLine} }
    \cup
    { Trunc([l EXCEPT ![8] = startcodon], n) :
        l \in {GoodLine("r1", "+", startcodon), OtherChrLine}, n \in {10, 13} }
    \cup
    { [l EXCEPT ![i] = NaT] :
        l \in {GoodLine("r1", "+", startcodon), GoodLine("r1", "-", startcodon),
               OtherChrLine, LowQualLine},
        i \in {4, 6, 7, 13, 14} }
    \cup
    { [l EXCEPT ![10] = b] :
        l \in {GoodLine("r1", "+", startcodon), GoodLine("r2", "+", stopcodon),
               LowQualLine},
        b \in {<<10, NaT>>, <<10, 20, EmptyText>>} }
    \cup
    { [GoodLine(id, "+", "exon") EXCEPT ![16] = stopcodon] : id \in {"r1", "r2"} }

\* thick.bed: lines whose columns 1, 2 differ from their columns 6, 7
ThickLines ==
    { [GoodLine(id, s, t) EXCEPT ![1] = r[1], ![2] = r[2], ![6] = r[3], ![7] = r[4]] :
        id \in {"r1", "r2"}, s \in {"+", "-"}, t \in {startcodon, stopcodon},
        r \in {<<100, 123, 111, 112>>, <<111, 112, 100, 123>>} }

\* chroms.bed: two reads that map on two chromosomes
ChromLines ==
    { Line(c, id, 10, s, r[1], r[2], <<10, 20>>, c, 110, 113, t, s) :
        c \in {"chr1", "chr2"}, id \in {"r1", "r2"}, s \in {"+", "."},
        r \in {<<100, 123>>, <<90, 133>>}, t \in {startcodon, stopcodon} }

StreamFiles == {"malformed.bed", "thick.bed", "chroms.bed"}

LinesOf(file) ==
    CASE file = "signs.bed" -> SignLines
      [] file = "dedup.bed" -> DedupLines
      [] file = "sites.bed" -> SiteLines
      [] file = "malformed.bed" -> MalformedLines
      [] file = "thick.bed" -> ThickLines
      [] file = "chroms.bed" -> ChromLines

\* the chromosomes of the reads
Chrs == {"chr1", "chr2"}

ReadIds == {"r1", "r2", "r3", "r4"}

(***************************************************************************)
(* Helpers of the parse loop                                               *)
(***************************************************************************)
\* str.lower as re.IGNORECASE applies it to the tags that occur
Lower(s) ==
    CASE s = "START_CODON" -> "start_codon"
      [] s = "STOP_CODON" -> "stop_codon"
      [] OTHER -> s

\* re.search(featPat, f): some column between two tabs is one of the tags,
\* whatever its case
featPat(l) ==
    \E i \in {3, 5, 8, 11, 12, 15, 16} :
        i + 1 < NF(l) /\ Lower(l[i]) \in {startcodon, stopcodon}

\* int(s), float(s) raise ValueError
NoNumber(s) == s < 0

\* lines 551-552 raise: fdat[4] / float(fdat[4]), fdat[12], and fdat[17] once
\* the chromosomes are equal (the and short-circuits)
CheckRaises(l) ==
    \/ NF(l) <= 4
    \/ NoNumber(l[4])
    \/ NF(l) <= 12
    \/ (l[0] = l[12] /\ NF(l) <= 17)

\* lines 555-558 raise: int() of the two columns of the branch taken, int()
\* of a block size
ConvertRaises(l) ==
    \/ ((l[15] = startcodon /\ l[5] = "+") \/ (l[15] = stopcodon /\ l[5] = "-"))
          /\ (NoNumber(l[13]) \/ NoNumber(l[6]))
    \/ ~((l[15] = startcodon /\ l[5] = "+") \/ (l[15] = stopcodon /\ l[5] = "-"))
          /\ ((l[15] = startcodon /\ l[5] = "-") \/ (l[15] = stopcodon /\ l[5] = "+"))
          /\ (NoNumber(l[14]) \/ NoNumber(l[7]))
    \/ \E i \in DOMAIN l[10] : NoNumber(l[10][i])

RECURSIVE sum(_)
sum(s) == IF s = <<>> THEN 0 ELSE Head(s) + sum(Tail(s))

abs(x) == IF x < 0 THEN 0 - x ELSE x

\* faulty variant of Check: the quality bound made strict
Check_strict(l) == l[0] = l[12] /\ l[5] = l[17] /\ l[4] > minQ

\* the condition of line 552
Check(l) == l[0] = l[12] /\ l[5] = l[17] /\ l[4] >= minQ

\* faulty variant of Seen: the membership test reads the wrong column
Seen_wrong_column(l, seen) == l[0] \in seen

\* readids.__contains__(fdat[3]) (line 559)
Seen(l, seen) == l[3] \in seen

\* lines 554-557: fdist after the if / elif (no else: it keeps its old value)
NewFdist(l, old) ==
    IF (l[15] = startcodon /\ l[5] = "+") \/ (l[15] = stopcodon /\ l[5] = "-")
    THEN <<l[13] - l[6]>>
    ELSE IF (l[15] = startcodon /\ l[5] = "-") \/ (l[15] = stopcodon /\ l[5] = "+")
    THEN <<l[14] - l[7]>>
    ELSE old

(***************************************************************************)
(* StartStopData                                                           *)
(***************************************************************************)
\* faulty variant of ids: the key of a site without its chromosome
ids_without_chr(chr, pos, strand) == <<"", pos, strand>>

\* '|'.join([chr, str(pos), strand]) (lines 79, 93)
ids(chr, pos, strand) == <<chr, pos, strand>>

\* faulty variants of dist: the parser's own difference whatever the strand, the
\* strand test inverted, the read position minus the codon's whatever the strand
dist_as_parsed(pos, readpos, strand) == pos - readpos

dist_strand_inverted(pos, readpos, strand) ==
    IF strand = "+" THEN pos - readpos ELSE readpos - pos

dist_unstranded(pos, readpos, strand) == readpos - pos

\* faulty variant of dist: the distance without its sign
dist_absolute(pos, readpos, strand) == abs(readpos - pos)

\* the distance add_start_codon / add_stop_codon compute (lines 81, 95)
dist(pos, readpos, strand) ==
    IF strand = "-" THEN pos - readpos ELSE readpos - pos

\* dict[ids] = concatenate(dict[ids], [row]), or a new one row array
AddRow(codons, key, row) ==
    IF key \in DOMAIN codons
    THEN [codons EXCEPT ![key] = Append(@, row)]
    ELSE codons @@ (key :> <<row>>)

add_start_codon(chr, startpos, strand, readstart, readlen) ==
    /\ startcodons' = AddRow(startcodons, ids(chr, startpos, strand),
                             <<startpos, readstart, dist(startpos, readstart, strand), readlen>>)
    /\ start_dist' = start_dist \cup {dist(startpos, readstart, strand)}
    /\ UNCHANGED <<stopcodons, stop_dist>>

add_stop_codon(chr, stoppos, strand, readstop, readlen) ==
    /\ stopcodons' = AddRow(stopcodons, ids(chr, stoppos, strand),
                            <<stoppos, readstop, dist(stoppos, readstop, strand), readlen>>)
    /\ stop_dist' = stop_dist \cup {dist(stoppos, readstop, strand)}
    /\ UNCHANGED <<startcodons, start_dist>>

(***************************************************************************)
(* The reductions (pandas data frames)                                     *)
(*                                                                         *)
(* A data frame is [index, columns, values]: index and columns are the     *)
(* lists of row and column labels, values maps <<row, column>> to the      *)
(* cell; a cell that is NaN is absent from the domain of values.           *)
(***************************************************************************)
RECURSIVE sorted(_)
sorted(S) ==
    IF S = {} THEN <<>>
    ELSE LET m == CHOOSE x \in S : \A y \in S : x <= y
         IN  <<m>> \o sorted(S \ {m})

Range(s) == {s[i] : i \in DOMAIN s}

\* faulty variant of SitePasses: the site filter made strict
SitePasses_strict(dat, mincount) == Len(dat) > mincount

\* dat.shape[0] >= mincount (lines 111, 138)
SitePasses(dat, mincount) == Len(dat) >= mincount

\* lines 112-116: for e in dat: len_dict[int(e[3])].append(int(e[2]))
RECURSIVE FanOut(_, _)
FanOut(len_dict, dat) ==
    IF dat = <<>> THEN len_dict
    ELSE LET e == Head(dat)
         IN  FanOut(IF e[4] \in DOMAIN len_dict
                    THEN [len_dict EXCEPT ![e[4]] = Append(@, e[3])]
                    ELSE len_dict @@ (e[4] :> <<e[3]>>),
                    Tail(dat))

\* lines 108-116: the loop over the sites
RECURSIVE LenDict(_, _, _, _)
LenDict(codons, keys, mincount, len_dict) ==
    IF keys = {} THEN len_dict
    ELSE LET k == CHOOSE x \in keys : TRUE
         IN  LenDict(codons, keys \ {k}, mincount,
                     IF SitePasses(codons[k], mincount)
                     THEN FanOut(len_dict, codons[k])
                     ELSE len_dict)

\* faulty variant of distcount: return_counts forgotten, a distance present counts 1
distcount_presence(list, d) == IF \E i \in DOMAIN list : list[i] = d THEN 1 ELSE 0

\* np.unique(list, return_counts=True): the counts, per distinct element
distcount(list, d) == Cardinality({i \in DOMAIN list : list[i] = d})

\* pd.DataFrame(columns=cols)
DataFrame(cols) == [index |-> <<>>, columns |-> cols, values |-> <<>>]

\* lines 122-125: the one row frame of read length rl
RowFrame(rl, list) ==
    [index |-> <<rl>>,
     columns |-> sorted(Range(list)),
     values |-> [p \in {rl} \X Range(list) |-> distcount(list, p[2])]]

\* sdf.append(tmpdf): rows appended, columns united, cells of neither are NaN
append(df, tmpdf) ==
    [index |-> df.index \o tmpdf.index,
     columns |-> sorted(Range(df.columns) \cup Range(tmpdf.columns)),
     values |-> df.values @@ tmpdf.values]

\* sdf.fillna(v)
fillna(df, v) ==
    [df EXCEPT !.values =
        [p \in Range(df.index) \X Range(df.columns) |->
            IF p \in DOMAIN df.values THEN df.values[p] ELSE v]]

\* lines 121-126: for rl in readlens: sdf = sdf.append(tmpdf)
RECURSIVE AppendRows(_, _, _)
AppendRows(df, readlens, len_dict) ==
    IF readlens = <<>> THEN df
    ELSE AppendRows(append(df, RowFrame(Head(readlens), len_dict[Head(readlens)])),
                    Tail(readlens), len_dict)

\* faulty variant of cols: the frame starts without columns, so that only the
\* distances of the rows appended become columns
cols_from_rows(dists) == <<>>

\* the column labels of the empty frame (lines 118, 145)
cols(dists) == sorted(dists)

\* lines 118-128, 145-155: the frame built from the read length dictionary
dist_frame(len_dict, dists) ==
    fillna(AppendRows(DataFrame(cols(dists)), sorted(DOMAIN len_dict), len_dict), 0)

\* the body shared by the two reductions (lines 108-128, 135-155)
dist_count(codons, dists, mincount) ==
    dist_frame(LenDict(codons, DOMAIN codons, mincount, <<>>), dists)

\* faulty variant of get_start_codon_dist_count: the read length dictionary is the
\* instance's __start_len_dict instead of a fresh local one
get_start_codon_dist_count_stateful(mincount) ==
    /\ pc = "done"
    /\ start_len_dict' = LenDict(startcodons, DOMAIN startcodons, mincount, start_len_dict)
    /\ sdf' = dist_frame(start_len_dict', start_dist)
    /\ call' = <<"start", mincount>>
    /\ UNCHANGED <<fin, pc, nread, f, fdist, readids, acc, stop_len_dict, ncontrib,
                   part>>

get_start_codon_dist_count(mincount) ==
    /\ pc = "done"
    /\ sdf' = dist_count(startcodons, start_dist, mincount)
    /\ call' = <<"start", mincount>>
    /\ UNCHANGED <<fin, pc, nread, f, fdist, readids, acc, start_len_dict,
                   stop_len_dict, ncontrib, part>>

get_stop_codon_dist_count(mincount) ==
    /\ pc = "done"
    /\ sdf' = dist_count(stopcodons, stop_dist, mincount)
    /\ call' = <<"stop", mincount>>
    /\ UNCHANGED <<fin, pc, nread, f, fdist, readids, acc, start_len_dict,
                   stop_len_dict, ncontrib, part>>

\* the reductions called with no argument
get_start_codon_dist_count_noarg ==
    /\ pc = "done"
    /\ sdf' = dist_count(startcodons, start_dist, mincount_default)
    /\ call' = <<"start", mincount_default, "noarg">>
    /\ UNCHANGED <<fin, pc, nread, f, fdist, readids, acc, start_len_dict,
                   stop_len_dict, ncontrib, part>>

get_stop_codon_dist_count_noarg ==
    /\ pc = "done"
    /\ sdf' = dist_count(stopcodons, stop_dist, mincount_default)
    /\ call' = <<"stop", mincount_default, "noarg">>
    /\ UNCHANGED <<fin, pc, nread, f, fdist, readids, acc, start_len_dict,
                   stop_len_dict, ncontrib, part>>

(***************************************************************************)
(* parse_start_stop_codon                                                  *)
(***************************************************************************)
\* faulty variant of Route: the two bounds made strict
Route_strict(l, d, readlen) ==
    IF abs(d) < readlen /\ d >= 0 /\ l[15] = startcodon /\ l[5] = "+" /\ readlen > minL
    THEN add_start_codon(l[0], l[13], l[5], l[6], readlen)
    ELSE IF abs(d) < readlen /\ d <= 0 /\ l[15] = stopcodon /\ l[5] = "+" /\ readlen > minL
    THEN add_stop_codon(l[0], l[14], l[5], l[7], readlen)
    ELSE IF abs(d) < readlen /\ d <= 0 /\ l[15] = startcodon /\ l[5] = "-" /\ readlen > minL
    THEN add_start_codon(l[0], l[14], l[5], l[7], readlen)
    ELSE IF abs(d) < readlen /\ d >= 0 /\ l[15] = stopcodon /\ l[5] = "-" /\ readlen > minL
    THEN add_stop_codon(l[0], l[13], l[5], l[6], readlen)
    ELSE UNCHANGED acc

\* lines 560-567: the if / elif chain that routes an unseen read
Route(l, d, readlen) ==
    IF abs(d) <= readlen /\ d >= 0 /\ l[15] = startcodon /\ l[5] = "+" /\ readlen >= minL
    THEN add_start_codon(l[0], l[13], l[5], l[6], readlen)
    ELSE IF abs(d) <= readlen /\ d <= 0 /\ l[15] = stopcodon /\ l[5] = "+" /\ readlen >= minL
    THEN add_stop_codon(l[0], l[14], l[5], l[7], readlen)
    ELSE IF abs(d) <= readlen /\ d <= 0 /\ l[15] = startcodon /\ l[5] = "-" /\ readlen >= minL
    THEN add_start_codon(l[0], l[14], l[5], l[7], readlen)
    ELSE IF abs(d) <= readlen /\ d >= 0 /\ l[15] = stopcodon /\ l[5] = "-" /\ readlen >= minL
    THEN add_stop_codon(l[0], l[13], l[5], l[6], readlen)
    ELSE UNCHANGED acc

\* the body of the for loop over fh for the line l (lines 548-568)
ParseBody(l) ==
    /\ pc = "parse"
    /\ nread < MaxLines
    /\ nread' = nread + 1
    /\ UNCHANGED <<fin, start_len_dict, stop_len_dict, sdf, call>>
    /\ IF ~featPat(l)
       THEN UNCHANGED <<pc, fdist, readids, acc, ncontrib>>
       ELSE IF CheckRaises(l)
       THEN \* IndexError or ValueError
            /\ pc' = "raised"
            /\ UNCHANGED <<fdist, readids, acc, ncontrib>>
       ELSE IF ~Check(l)
       THEN UNCHANGED <<pc, fdist, readids, acc, ncontrib>>
       ELSE IF ConvertRaises(l)
       THEN \* ValueError
            /\ pc' = "raised"
            /\ UNCHANGED <<fdist, readids, acc, ncontrib>>
       ELSE LET fd == NewFdist(l, fdist)
                readlen == sum(l[10])
            IN  IF Seen(l, readids)
                THEN /\ fdist' = fd
                     /\ UNCHANGED <<pc, readids, acc, ncontrib>>
                ELSE IF fd = Unbound
                THEN \* abs(fdist) on line 560 raises UnboundLocalError
                     /\ pc' = "raised"
                     /\ UNCHANGED <<fdist, readids, acc, ncontrib>>
                ELSE /\ fdist' = fd
                     /\ Route(l, fd[1], readlen)
                     /\ readids' = readids \cup {l[3]}
                     /\ ncontrib' = IF acc' # acc
                                    THEN [ncontrib EXCEPT ![l[3]] = @ + 1]
                                    ELSE ncontrib
                     /\ UNCHANGED pc

(* The same loop body as a function of the state of a run: the run of a    *)
(* parse that is given other lines than the one observed.                  *)
RunInit ==
    [pc |-> "parse", fdist |-> Unbound, readids |-> {}, startcodons |-> <<>>,
     stopcodons |-> <<>>, start_dist |-> {}, stop_dist |-> {}]

RunAddStart(st, chr, startpos, strand, readstart, readlen) ==
    [st EXCEPT !.startcodons = AddRow(@, ids(chr, startpos, strand),
                   <<startpos, readstart, dist(startpos, readstart, strand), readlen>>),
               !.start_dist = @ \cup {dist(startpos, readstart, strand)}]

RunAddStop(st, chr, stoppos, strand, readstop, readlen) ==
    [st EXCEPT !.stopcodons = AddRow(@, ids(chr, stoppos, strand),
                   <<stoppos, readstop, dist(stoppos, readstop, strand), readlen>>),
               !.stop_dist = @ \cup {dist(stoppos, readstop, strand)}]

RunRoute(st, l, d, readlen) ==
    IF abs(d) <= readlen /\ d >= 0 /\ l[15] = startcodon /\ l[5] = "+" /\ readlen >= minL
    THEN RunAddStart(st, l[0], l[13], l[5], l[6], readlen)
    ELSE IF abs(d) <= readlen /\ d <= 0 /\ l[15] = stopcodon /\ l[5] = "+" /\ readlen >= minL
    THEN RunAddStop(st, l[0], l[14], l[5], l[7], readlen)
    ELSE IF abs(d) <= readlen /\ d <= 0 /\ l[15] = startcodon /\ l[5] = "-" /\ readlen >= minL
    THEN RunAddStart(st, l[0], l[14], l[5], l[7], readlen)
    ELSE IF abs(d) <= readlen /\ d >= 0 /\ l[15] = stopcodon /\ l[5] = "-" /\ readlen >= minL
    THEN RunAddStop(st, l[0], l[13], l[5], l[6], readlen)
    ELSE st

RunBody(st, l) ==
    IF st.pc # "parse" THEN st
    ELSE IF ~featPat(l) THEN st
    ELSE IF CheckRaises(l) THEN [st EXCEPT !.pc = "raised"]
    ELSE IF ~Check(l) THEN st
    ELSE IF ConvertRaises(l) THEN [st EXCEPT !.pc = "raised"]
    ELSE LET fd == NewFdist(l, st.fdist)
             readlen == sum(l[10])
         IN  IF Seen(l, st.readids) THEN [st EXCEPT !.fdist = fd]
             ELSE IF fd = Unbound THEN [st EXCEPT !.pc = "raised"]
             ELSE [RunRoute(st, l, fd[1], readlen) EXCEPT
                      !.fdist = fd, !.readids = @ \cup {l[3]}]

\* one iteration of the for loop over fh (lines 547-568)
ParseLine(l) ==
    /\ f' = l
    /\ ParseBody(l)
    /\ UNCHANGED part

\* end of file: fh.close(); return startstop (the locals are gone)
Close ==
    /\ pc = "parse"
    /\ pc' = "done"
    /\ f' = NoLine
    /\ fdist' = Unbound
    /\ readids' = {}
    /\ UNCHANGED <<fin, nread, acc, start_len_dict, stop_len_dict, sdf, call, ncontrib,
                   part>>

Init ==
    /\ fin \in Files
    /\ pc = "parse"
    /\ nread = 0
    /\ f = NoLine
    /\ fdist = Unbound
    /\ readids = {}
    /\ startcodons = <<>>
    /\ stopcodons = <<>>
    /\ start_dist = {}
    /\ stop_dist = {}
    /\ start_len_dict = <<>>
    /\ stop_len_dict = <<>>
    /\ sdf = NoFrame
    /\ call = <<>>
    /\ ncontrib = [r \in ReadIds |-> 0]
    /\ part = [c \in Chrs |-> RunInit]

Next ==
    \/ \E l \in LinesOf(fin) : ParseLine(l)
    \/ Close
    \/ \E m \in 0..MaxMinCount : get_start_codon_dist_count(m)
    \/ \E m \in 0..MaxMinCount : get_stop_codon_dist_count(m)

Spec == Init /\ [][Next]_vars

\* one iteration of the loop, and beside it the same iteration of the run
\* that is given the lines of the chromosome of l only
ParsePartitioned(l) ==
    /\ f' = l
    /\ ParseBody(l)
    /\ part' = [part EXCEPT ![l[0]] = RunBody(@, l)]

InitStreams ==
    /\ fin \in StreamFiles
    /\ pc = "parse"
    /\ nread = 0
    /\ f = NoLine
    /\ fdist = Unbound
    /\ readids = {}
    /\ startcodons = <<>>
    /\ stopcodons = <<>>
    /\ start_dist = {}
    /\ stop_dist = {}
    /\ start_len_dict = <<>>
    /\ stop_len_dict = <<>>
    /\ sdf = NoFrame
    /\ call = <<>>
    /\ ncontrib = [r \in ReadIds |-> 0]
    /\ part = [c \in Chrs |-> RunInit]

NextStreams ==
    \/ \E l \in LinesOf(fin) : ParsePartitioned(l)
    \/ Close
    \/ \E m \in 0..MaxMinCount : get_start_codon_dist_count(m)
    \/ \E m \in 0..MaxMinCount : get_stop_codon_dist_count(m)
    \/ get_start_codon_dist_count_noarg
    \/ get_stop_codon_dist_count_noarg

SpecStreams == InitStreams /\ [][NextStreams]_vars


(***************************************************************************)
(* Properties                                                              *)
(***************************************************************************)
\* a step of the for loop: f' is the line it read
ParseStep == nread' = nread + 1

\* the state of the observed run
Whole ==
    [pc |-> pc, fdist |-> fdist, readids |-> readids, startcodons |-> startcodons,
     stopcodons |-> stopcodons, start_dist |-> start_dist, stop_dist |-> stop_dist]


\* lemma: the loop body as a function agrees with the loop body as an action
RunBodyAgrees == [][ParseStep => RunBody(Whole, f') = Whole']_vars

Last(s) == s[Len(s)]

RowsOf(codons, key) == IF key \in DOMAIN codons THEN codons[key] ELSE <<>>

\* every row of every site of a class, as <<site, position in its list>>
AllRows(codons) == UNION {{<<k, i>> : i \in DOMAIN codons[k]} : k \in DOMAIN codons}

\* the class holds one row in all, on the site `key`
OnlyRow(codons, key) == DOMAIN codons = {key} /\ Len(codons[key]) = 1

\* the frame with the single cell (rl, d) = 1
OneCell(rl, d) == [index |-> <<rl>>, columns |-> <<d>>, values |-> (<<rl, d>> :> 1)]

\* the last reduction was of class c with a minimum count of at most 1
Reduced(c) == pc = "done" /\ call # <<>> /\ call[1] = c /\ call[2] <= 1

\* the step accepted the line it read into the given class on the given strand
AcceptedStart(strand) == ParseStep /\ startcodons' # startcodons /\ f'[5] = strand
AcceptedStop(strand) == ParseStep /\ stopcodons' # stopcodons /\ f'[5] = strand

\* C1 as stated: a plus-strand line accepted as a start-codon observation is
\* stored with the distance codon-begin - read-start, which is in
\* [0, read-length]; one such record alone gives the start matrix with row L,
\* column codon-begin - read-start, value 1.
C1_Original ==
    [][ /\ AcceptedStart("+") =>
            LET key == <<f'[0], f'[13], "+">>
                row == Last(RowsOf(startcodons', key))
            IN  /\ key \in DOMAIN startcodons'
                /\ row[3] = f'[13] - f'[6]
                /\ row[3] \in 0..row[4]
                /\ row[3] \in start_dist'
        /\ \A key \in DOMAIN startcodons' :
            (Reduced("start")' /\ OnlyRow(startcodons', key) /\ key[3] = "+") =>
                LET row == startcodons'[key][1]
                IN  sdf' = OneCell(row[4], row[1] - row[2])
      ]_vars

\* C1 amended: a plus-strand line accepted as a start-codon observation is
\* stored under the site of codon-begin with the distance read-start -
\* codon-begin (columns 7 and 14 of the line), which is in [-read-length, 0];
\* one such record alone, of read length L, gives the start matrix with the
\* single row L, the single column read-start - codon-begin and the value 1.
C1_StartPlusDistance ==
    [][ /\ AcceptedStart("+") =>
            LET key == <<f'[0], f'[13], "+">>
                row == Last(RowsOf(startcodons', key))
            IN  /\ key \in DOMAIN startcodons'
                /\ startcodons' = (key :> RowsOf(startcodons, key) \o <<row>>) @@ startcodons
                /\ row = <<f'[13], f'[6], f'[6] - f'[13], sum(f'[10])>>
                /\ row[3] \in (0 - row[4])..0
                /\ start_dist' = start_dist \cup {row[3]}
        /\ \A key \in DOMAIN startcodons' :
            (Reduced("start")' /\ OnlyRow(startcodons', key) /\ key[3] = "+") =>
                LET row == startcodons'[key][1]
                IN  sdf' = OneCell(row[4], row[2] - row[1])
      ]_vars

\* Scenario C: read start 100, codon begin 110, read length 30, reduced: the
\* matrix has row 30 and the single column -10
C1_Witness ==
    /\ fin = "signs.bed"
    /\ Reduced("start")
    /\ OnlyRow(startcodons, <<"chr1", 110, "+">>)
    /\ startcodons[<<"chr1", 110, "+">>][1] = <<110, 100, -10, 30>>
    /\ sdf = OneCell(30, -10)

\* C2 as stated: a plus-strand line accepted as a stop-codon observation is
\* stored with the distance codon-end - read-end, which is in
\* [-read-length, 0], and is counted under that column.
C2_Original ==
    [][ /\ AcceptedStop("+") =>
            LET key == <<f'[0], f'[14], "+">>
                row == Last(RowsOf(stopcodons', key))
            IN  /\ key \in DOMAIN stopcodons'
                /\ row[3] = f'[14] - f'[7]
                /\ row[3] \in (0 - row[4])..0
                /\ row[3] \in stop_dist'
        /\ \A key \in DOMAIN stopcodons' :
            (Reduced("stop")' /\ OnlyRow(stopcodons', key) /\ key[3] = "+") =>
                LET row == stopcodons'[key][1]
                IN  sdf' = OneCell(row[4], row[1] - row[2])
      ]_vars

\* C2 amended: a plus-strand line accepted as a stop-codon observation is
\* stored under the site of codon-end with the distance read-end - codon-end
\* (columns 8 and 15 of the line), which is in [0, read-length], and is
\* counted under that column.
C2_StopPlusDistance ==
    [][ /\ AcceptedStop("+") =>
            LET key == <<f'[0], f'[14], "+">>
                row == Last(RowsOf(stopcodons', key))
            IN  /\ key \in DOMAIN stopcodons'
                /\ stopcodons' = (key :> RowsOf(stopcodons, key) \o <<row>>) @@ stopcodons
                /\ row = <<f'[14], f'[7], f'[7] - f'[14], sum(f'[10])>>
                /\ row[3] \in 0..row[4]
                /\ stop_dist' = stop_dist \cup {row[3]}
        /\ \A key \in DOMAIN stopcodons' :
            (Reduced("stop")' /\ OnlyRow(stopcodons', key) /\ key[3] = "+") =>
                LET row == stopcodons'[key][1]
                IN  sdf' = OneCell(row[4], row[2] - row[1])
      ]_vars

\* read end 133, codon end 113, read length 20, reduced: column +20
C2_Witness ==
    /\ fin = "signs.bed"
    /\ Reduced("stop")
    /\ OnlyRow(stopcodons, <<"chr1", 113, "+">>)
    /\ stopcodons[<<"chr1", 113, "+">>][1] = <<113, 133, 20, 20>>
    /\ sdf = OneCell(20, 20)

\* C3: a minus-strand line accepted as a start-codon observation is stored in
\* the start accumulation under the site of codon-end with the distance
\* codon-end - read-end, in [-read-length, 0]; a minus-strand line accepted
\* as a stop-codon observation is stored in the stop accumulation under the
\* site of codon-begin with the distance codon-begin - read-start, in
\* [0, read-length]; a minus-strand line is accepted into the class of its
\* codon type only.
C3_MinusStrandMirror ==
    [][ /\ AcceptedStart("-") =>
            LET key == <<f'[0], f'[14], "-">>
                row == <<f'[14], f'[7], f'[14] - f'[7], sum(f'[10])>>
            IN  /\ f'[15] = startcodon
                /\ startcodons' = (key :> RowsOf(startcodons, key) \o <<row>>) @@ startcodons
                /\ row[3] \in (0 - row[4])..0
                /\ start_dist' = start_dist \cup {row[3]}
                /\ UNCHANGED <<stopcodons, stop_dist>>
        /\ AcceptedStop("-") =>
            LET key == <<f'[0], f'[13], "-">>
                row == <<f'[13], f'[6], f'[13] - f'[6], sum(f'[10])>>
            IN  /\ f'[15] = stopcodon
                /\ stopcodons' = (key :> RowsOf(stopcodons, key) \o <<row>>) @@ stopcodons
                /\ row[3] \in 0..row[4]
                /\ stop_dist' = stop_dist \cup {row[3]}
                /\ UNCHANGED <<startcodons, start_dist>>
      ]_vars

\* a minus-strand start line at distance -20 of read length 20 was accepted
C3_Witness ==
    /\ pc = "parse"
    /\ f # NoLine
    /\ f[5] = "-" /\ f[15] = startcodon /\ f[7] = 133 /\ sum(f[10]) = 20
    /\ startcodons = (<<"chr1", 113, "-">> :> << <<113, 133, -20, 20>> >>)
    /\ start_dist = {-20}

RECURSIVE SumContrib(_)
SumContrib(S) ==
    IF S = {} THEN 0
    ELSE LET r == CHOOSE x \in S : TRUE IN ncontrib[r] + SumContrib(S \ {r})

\* the line passes the pattern match and the chromosome / strand / quality check
Passes(l) == featPat(l) /\ l[0] = l[12] /\ l[5] = l[17] /\ l[4] >= minQ

\* C4: whatever lines were processed, every read identifier has contributed
\* at most one observation, the start and the stop accumulation counted
\* together (the observations stored are those contributions).
C4_AtMostOncePerRead ==
    /\ \A id \in ReadIds : ncontrib[id] <= 1
    /\ Cardinality(AllRows(startcodons)) + Cardinality(AllRows(stopcodons))
         = SumContrib(ReadIds)

\* three lines read, r1 and r2 have contributed once each, and the last line
\* is another qualifying line of r1
C4_Witness ==
    /\ pc = "parse" /\ nread = 3
    /\ ncontrib["r1"] = 1 /\ ncontrib["r2"] = 1
    /\ f[3] = "r1" /\ Passes(f) /\ f[15] = startcodon /\ f[5] = "+" /\ f[6] = 100
    /\ Cardinality(AllRows(startcodons)) + Cardinality(AllRows(stopcodons)) = 2

\* C5 as stated: the line of a read that passes the pattern match and the
\* chromosome / strand / quality check leaves the read marked as seen, accepted
\* or not; and a line of a read already seen never contributes.
C5_Original ==
    [][ ParseStep =>
          /\ Passes(f') => f'[3] \in readids'
          /\ f'[3] \in readids => UNCHANGED acc
      ]_vars

\* what does hold of the marking: the line that passes leaves its read marked
\* unless the iteration raised
MarkedUnlessRaised ==
    [][ (ParseStep /\ Passes(f') /\ pc' # "raised") => f'[3] \in readids' ]_vars

\* C6: a line that does not match the tags, or whose chromosomes differ, or
\* whose strands differ, or whose quality is below the minimum, is skipped
\* without error and changes neither accumulation, neither distance set nor the
\* seen reads; a quality equal to the minimum is not rejected (the iteration
\* goes on to the seen-read test: it marks the read, or raises there).
C6_SkippedLeavesState ==
    [][ ParseStep =>
          /\ (~featPat(f') \/ f'[0] # f'[12] \/ f'[5] # f'[17] \/ f'[4] < minQ) =>
                /\ pc' = "parse"
                /\ UNCHANGED <<acc, readids, fdist, ncontrib>>
          /\ (featPat(f') /\ f'[0] = f'[12] /\ f'[5] = f'[17] /\ f'[4] = minQ
                /\ f'[3] \notin readids) =>
                (pc' = "raised" \/ f'[3] \in readids')
      ]_vars

\* r2 has contributed, then a line of r1 of quality 9 was skipped: r1 is not
\* marked
C6_Witness ==
    /\ pc = "parse" /\ nread = 2
    /\ f[3] = "r1" /\ f[4] < minQ /\ featPat(f) /\ f[0] = f[12] /\ f[5] = f[17]
    /\ readids = {"r2"} /\ ncontrib["r2"] = 1 /\ ncontrib["r1"] = 0

\* the accumulation of a class
CodonsOf(c) == IF c = "start" THEN startcodons ELSE stopcodons

\* the stored row at position p = <<site, index>>
RowAt(codons, p) == codons[p[1]][p[2]]

\* the rows of the sites with at least m observations
PassingRows(codons, m) == {p \in AllRows(codons) : Len(codons[p[1]]) >= m}

Ascending(s) == \A i, j \in DOMAIN s : i < j => s[i] < s[j]

\* C7: the matrix returned by a reduction of a class with minimum count m
\* has as rows exactly the distinct read lengths of the observations of the
\* sites with at least m observations, and as columns exactly the distinct
\* distances stored in the class over all sites, whatever m is (both in
\* ascending order, without repetition); when no site passes it has no row
\* and the same columns.
C7_RowAndColumnSets ==
    (pc = "done" /\ call # <<>>) =>
        LET codons == CodonsOf(call[1])
            rows == {RowAt(codons, p)[4] : p \in PassingRows(codons, call[2])}
            columns == {RowAt(codons, p)[3] : p \in AllRows(codons)}
        IN  /\ Range(sdf.index) = rows
            /\ Range(sdf.columns) = columns
            /\ Ascending(sdf.index) /\ Ascending(sdf.columns)
            /\ PassingRows(codons, call[2]) = {} => sdf.index = <<>>

\* minimum count 2: a site with two observations passes, a site with one
\* does not, and the distance seen only at the latter is still a column
C7_Witness ==
    /\ pc = "done" /\ call = <<"start", 2>>
    /\ \E k \in DOMAIN startcodons : Len(startcodons[k]) = 2
    /\ \E k \in DOMAIN startcodons :
          /\ Len(startcodons[k]) = 1
          /\ \A p \in PassingRows(startcodons, 2) :
                RowAt(startcodons, p)[3] # startcodons[k][1][3]
    /\ Len(sdf.index) = 1 /\ Len(sdf.columns) = 2

\* C8: in the matrix returned by a reduction, the cell of row L and column d
\* is the number of stored observations of the class of read length L and
\* distance d on sites that pass the filter, 0 when there is none.
C8_CellCounts ==
    (pc = "done" /\ call # <<>>) =>
        LET codons == CodonsOf(call[1])
        IN  /\ DOMAIN sdf.values = Range(sdf.index) \X Range(sdf.columns)
            /\ \A L \in Range(sdf.index) : \A d \in Range(sdf.columns) :
                  sdf.values[<<L, d>>] =
                      Cardinality({p \in PassingRows(codons, call[2]) :
                                      /\ RowAt(codons, p)[4] = L
                                      /\ RowAt(codons, p)[3] = d})

\* a matrix with a cell of 2 and a cell of 0
C8_Witness ==
    /\ pc = "done" /\ call # <<>> /\ call[1] = "stop"
    /\ \E p \in DOMAIN sdf.values : sdf.values[p] = 2
    /\ \E p \in DOMAIN sdf.values : sdf.values[p] = 0

RECURSIVE SumCells(_, _)
SumCells(values, S) ==
    IF S = {} THEN 0
    ELSE LET p == CHOOSE x \in S : TRUE IN values[p] + SumCells(values, S \ {p})

RECURSIVE SumLen(_, _)
SumLen(codons, S) ==
    IF S = {} THEN 0
    ELSE LET k == CHOOSE x \in S : TRUE IN Len(codons[k]) + SumLen(codons, S \ {k})

\* C9: the site filter is inclusive and per site: a site with n observations
\* is in the matrix iff n >= min_site_count.  Each of the observations of a
\* site with n >= m is counted in its cell, and the counts of the matrix add
\* up to the observations of those sites alone, so a site with n < m gives
\* no row and no count.
C9_SiteFilterInclusive ==
    (pc = "done" /\ call # <<>>) =>
        LET codons == CodonsOf(call[1])
            m == call[2]
        IN  /\ \A k \in DOMAIN codons : Len(codons[k]) >= m =>
                  \A i \in DOMAIN codons[k] :
                      /\ <<codons[k][i][4], codons[k][i][3]>> \in DOMAIN sdf.values
                      /\ sdf.values[<<codons[k][i][4], codons[k][i][3]>>] >=
                            Cardinality({j \in DOMAIN codons[k] :
                                            /\ codons[k][j][4] = codons[k][i][4]
                                            /\ codons[k][j][3] = codons[k][i][3]})
            /\ SumCells(sdf.values, DOMAIN sdf.values) =
                  SumLen(codons, {k \in DOMAIN codons : Len(codons[k]) >= m})
            /\ (\A k \in DOMAIN codons : Len(codons[k]) < m) => sdf.index = <<>>

\* minimum count 2 with a site of exactly 2 observations (in) and a site of
\* 1 observation (out): the counts add up to 2
C9_Witness ==
    /\ pc = "done" /\ call = <<"stop", 2>>
    /\ \E k \in DOMAIN stopcodons : Len(stopcodons[k]) = 2
    /\ \E k \in DOMAIN stopcodons : Len(stopcodons[k]) = 1
    /\ SumCells(sdf.values, DOMAIN sdf.values) = 2

\* C10: a reduction is read-only and idempotent: it changes no field of the
\* accumulator (the two accumulations, the two distance sets, the two read
\* length dictionaries), and called again with the same class and minimum
\* count it returns the identical matrix.
C10_ReduceReadOnly ==
    [][ (pc = "done" /\ call' # <<>>) =>
          /\ UNCHANGED <<acc, start_len_dict, stop_len_dict>>
          /\ call' = call => sdf' = sdf
      ]_vars

\* a reduction of a non-empty start accumulation has returned
C10_Witness ==
    /\ pc = "done" /\ call = <<"start", 1>>
    /\ Cardinality(AllRows(startcodons)) = 3
    /\ Len(sdf.index) = 2

\* a line of 18 columns whose columns of numbers all hold numbers
Parseable(l) ==
    /\ NF(l) = 18
    /\ \A i \in {4, 6, 7, 13, 14} : ~NoNumber(l[i])
    /\ \A i \in DOMAIN l[10] : ~NoNumber(l[10][i])

\* C12 as stated: the iteration over a parseable line never raises, the
\* line that matches the pattern only case-insensitively or outside the type
\* column and the line whose strand is neither + nor - included, also when it
\* is the first line to pass the check.
C12_Original ==
    [][ (ParseStep /\ Parseable(f')) => pc' # "raised" ]_vars

\* the rows of a class, whatever their site
Rows(codons) == {RowAt(codons, p) : p \in AllRows(codons)}

\* the sign the parser's difference must have for the line's type and strand
RightSign(l, d) ==
    IF (l[15] = startcodon /\ l[5] = "+") \/ (l[15] = stopcodon /\ l[5] = "-")
    THEN d >= 0 ELSE d <= 0

\* C17: every stored observation has a read length of at least minL and a
\* distance whose magnitude is at most its read length; both bounds are
\* inclusive: an unseen read's line that passes the check, of a known type and
\* strand, with a difference of the right sign, is accepted when its read
\* length equals minL and when its distance equals its read length.
C17_BoundsInclusive ==
    [][ ParseStep =>
          /\ \A row \in Rows(startcodons') \cup Rows(stopcodons') :
                row[4] >= minL /\ abs(row[3]) <= row[4]
          /\ (/\ Passes(f') /\ f'[3] \notin readids
              /\ f'[15] \in {startcodon, stopcodon} /\ f'[5] \in {"+", "-"}
              /\ RightSign(f', NewFdist(f', Unbound)[1])
              /\ sum(f'[10]) >= minL
              /\ abs(NewFdist(f', Unbound)[1]) <= sum(f'[10]))
             => acc' # acc
      ]_vars

\* the observation stored has the read length minL and a distance of the
\* magnitude of its read length
C17_Witness ==
    /\ pc = "parse" /\ f # NoLine /\ sum(f[10]) = minL
    /\ \E row \in Rows(startcodons) : row[4] = minL /\ abs(row[3]) = minL

\* C18: whatever the strand, every stored start observation has a distance
\* <= 0 and every stored stop observation a distance >= 0; so have the two
\* distance sets, and the start matrix has no positive column label, the stop
\* matrix no negative one.
C18_DistanceSigns ==
    /\ \A row \in Rows(startcodons) : row[3] <= 0
    /\ \A row \in Rows(stopcodons) : row[3] >= 0
    /\ \A d \in start_dist : d <= 0
    /\ \A d \in stop_dist : d >= 0
    /\ (sdf # NoFrame /\ call[1] = "start") => \A d \in Range(sdf.columns) : d <= 0
    /\ (sdf # NoFrame /\ call[1] = "stop") => \A d \in Range(sdf.columns) : d >= 0

\* start observations on both strands, with negative distances, reduced
C18_Witness ==
    /\ pc = "done" /\ call # <<>> /\ call[1] = "start"
    /\ \E k \in DOMAIN startcodons : k[3] = "+" /\ startcodons[k][1][3] < 0
    /\ \E k \in DOMAIN startcodons : k[3] = "-" /\ startcodons[k][1][3] < 0
    /\ \E i \in DOMAIN sdf.columns : sdf.columns[i] < 0

\* the last reduction was called with no argument
NoArg == pc = "done" /\ call # <<>> /\ Len(call) = 3

\* every site of the class contributes to the matrix: its rows are the read
\* lengths of all the observations, its cells count them all
AllSitesContribute(c) ==
    /\ Range(sdf.index) = {row[4] : row \in Rows(CodonsOf(c))}
    /\ SumCells(sdf.values, DOMAIN sdf.values) = Cardinality(AllRows(CodonsOf(c)))

\* C15 as stated: the reduction called without a minimum site count uses 0
\* and filters out no site: every site with at least one observation
\* contributes to the matrix.
C15_Original == NoArg => AllSitesContribute(call[1])

\* what does hold: called with no argument the reduction uses 20, so that a
\* site of fewer observations contributes nothing; with the minimum count
\* main passes by default, every site contributes
NoArgUsesTwenty ==
    /\ NoArg =>
          /\ sdf = dist_count(CodonsOf(call[1]),
                              IF call[1] = "start" THEN start_dist ELSE stop_dist, 20)
          /\ (\A k \in DOMAIN CodonsOf(call[1]) : Len(CodonsOf(call[1])[k]) < 20)
                => sdf.index = <<>>
    /\ (pc = "done" /\ call # <<>> /\ Len(call) = 2 /\ call[2] = minC_default)
          => AllSitesContribute(call[1])

\* the rows a step has appended to an accumulation
Appended(old, new) ==
    {Last(new[k]) : k \in {j \in DOMAIN new : RowsOf(old, j) # new[j]}}

\* the branches that work on the begin of the codon and of the read
UsesReadStart(l) ==
    (l[15] = startcodon /\ l[5] = "+") \/ (l[15] = stopcodon /\ l[5] = "-")

\* the lines that differ from l in the columns i, j (positions) and k (a
\* text) at most
AltPositions == {<<100, 123>>, <<111, 112>>, <<90, 133>>}
AltTexts == {"255,0,0", "0"}
Vary(l, i, j, k) ==
    {[l EXCEPT ![i] = p[1], ![j] = p[2], ![k] = t] : p \in AltPositions, t \in AltTexts}

\* C14 as stated: the read position stored in an observation is the 2nd
\* (read-start) or the 3rd (read-end) column of the line, and the three
\* columns after the read strand (the 7th, 8th and 9th) are unused: the
\* iteration over a line that differs in those three columns only leads to
\* the same state.
C14_Original ==
    [][ (ParseStep /\ NF(f') = 18) =>
          /\ \A row \in Appended(startcodons, startcodons')
                         \cup Appended(stopcodons, stopcodons') :
                row[2] = IF UsesReadStart(f') THEN f'[1] ELSE f'[2]
          /\ \A g \in Vary(f', 6, 7, 8) : ParseBody(g)
      ]_vars

\* what does hold: the read position tested and stored is the 7th or the
\* 8th column, and it is the 2nd, the 3rd and the 9th that are unused
ReadPositionColumns ==
    [][ (ParseStep /\ NF(f') = 18) =>
          /\ \A row \in Appended(startcodons, startcodons')
                         \cup Appended(stopcodons, stopcodons') :
                row[2] = IF UsesReadStart(f') THEN f'[6] ELSE f'[7]
          /\ \A g \in Vary(f', 1, 2, 8) : ParseBody(g)
      ]_vars

\* a column where an integer is required (read start / end, codon begin /
\* end, a block size) holds a text that is no number
HasText(l) ==
    \/ \E i \in {6, 7, 13, 14} : i < NF(l) /\ l[i] = NaT
    \/ 10 < NF(l) /\ \E j \in DOMAIN l[10] : l[10][j] = NaT

\* C11 as stated: the iteration over a line that matches the pattern and has
\* fewer than 18 columns, or a text that is no number where an integer is
\* required, aborts the run, whatever the line's chromosomes, strands and
\* quality are.
C11_Original ==
    [][ (ParseStep /\ featPat(f') /\ (NF(f') < 18 \/ HasText(f'))) => pc' = "raised"
      ]_vars

\* what does hold: a matching line of fewer than 13 columns aborts the run, and
\* so does a matching line that passes the check with a text for a block size
ShortLineRaises ==
    [][ ParseStep =>
          /\ (featPat(f') /\ NF(f') < 13) => pc' = "raised"
          /\ (NF(f') = 18 /\ Passes(f') /\ ~NoNumber(f'[4])
                /\ \E j \in DOMAIN f'[10] : NoNumber(f'[10][j])) => pc' = "raised"
      ]_vars

\* the block sizes end with a comma: the last element is empty, the others are
\* numbers
TrailingComma(b) ==
    /\ Len(b) > 1 /\ Last(b) = EmptyText
    /\ \A j \in 1..(Len(b) - 1) : ~NoNumber(b[j])

\* the sum of the elements that are numbers
RECURSIVE SumInts(_)
SumInts(b) ==
    IF b = <<>> THEN 0
    ELSE (IF NoNumber(Head(b)) THEN 0 ELSE Head(b)) + SumInts(Tail(b))

\* C13 as stated: for a line that passes the check (of a known type and
\* strand, its other columns well formed) whose block sizes end with a comma,
\* the iteration does not raise, and the read length of the observation it
\* stores is the sum of the block sizes that are numbers.
C13_Original ==
    [][ (/\ ParseStep /\ NF(f') = 18 /\ Passes(f') /\ TrailingComma(f'[10])
         /\ \A i \in {4, 6, 7, 13, 14} : ~NoNumber(f'[i])
         /\ f'[15] \in {startcodon, stopcodon} /\ f'[5] \in {"+", "-"})
        => /\ pc' # "raised"
           /\ \A row \in Appended(startcodons, startcodons')
                          \cup Appended(stopcodons, stopcodons') :
                 row[4] = SumInts(f'[10])
      ]_vars

\* the union of the per-site observation lists of two accumulations
Merge(a, b) == [k \in DOMAIN a \cup DOMAIN b |-> RowsOf(a, k) \o RowsOf(b, k)]

\* the accumulations of the single pass are the union of those of the runs
\* over the chromosomes
UnionOfParts ==
    /\ startcodons = Merge(part["chr1"].startcodons, part["chr2"].startcodons)
    /\ stopcodons = Merge(part["chr1"].stopcodons, part["chr2"].stopcodons)
    /\ start_dist = part["chr1"].start_dist \cup part["chr2"].start_dist
    /\ stop_dist = part["chr1"].stop_dist \cup part["chr2"].stop_dist

\* C16 as stated: the stream split by read chromosome, each part parsed on
\* its own in the original order, gives accumulations whose union is the
\* accumulations of the single pass (compared while no run has raised).
C16_Original ==
    (pc # "raised" /\ \A c \in Chrs : part[c].pc # "raised") => UnionOfParts

\* C16 amended: the chromosomes are coupled through the seen reads, which are
\* shared by the whole stream.  While no read identifier has passed the check
\* on both chromosomes: when the single pass raises, the run over one of the
\* chromosomes has raised, and as long as no run over a chromosome has raised,
\* the single pass has not raised and its accumulations and distance sets are
\* the union of theirs.
C16_PartitionUnion ==
    (part["chr1"].readids \cap part["chr2"].readids = {}) =>
        /\ pc = "raised" => \E c \in Chrs : part[c].pc = "raised"
        /\ (\A c \in Chrs : part[c].pc # "raised") => (pc # "raised" /\ UnionOfParts)

\* four lines read, r1 stored on chr1 and r2 on chr2, no run has raised
C16_Witness ==
    /\ fin = "chroms.bed" /\ pc = "parse" /\ nread = 4
    /\ part["chr1"].readids = {"r1"} /\ part["chr2"].readids = {"r2"}
    /\ part["chr1"].startcodons # <<>> /\ part["chr2"].stopcodons # <<>>
    /\ part["chr1"].pc = "parse" /\ part["chr2"].pc = "parse"
    /\ DOMAIN startcodons # {} /\ DOMAIN stopcodons # {}
====
